---- MODULE Spec2Model ----
(***************************************************************************)
(* Model of the agent orchestrator of backend/app: the request handler     *)
(* process_query (main.py), the provider configuration get_gemini_model    *)
(* (llm_service.py), the webhook caller call_search_web (tool_caller.py)   *)
(* and the query_logs table (models.py).                                   *)
(*                                                                         *)
(* Text that the code parses (the classifier's output) is a sequence of    *)
(* one-character strings, so that str.strip, str.startswith and            *)
(* str.replace are computed as Python computes them.  Text that the code   *)
(* only passes along (user prompt, user name, generated answers) is an     *)
(* opaque string.                                                          *)
(***************************************************************************)
EXTENDS Integers, Sequences, FiniteSets, TLC

\* ---------------------------------------------------------------- bounds
\* Number of request slots of the model.
NumReqs == 2
\* A classifier output is a concatenation of at most MaxParts pieces.
MaxParts == 3

Reqs == 1..NumReqs

\* ------------------------------------------------------- character texts
\* The literal "BUSCAR:" of main.py:154 and main.py:156.
PREFIX == <<"B", "U", "S", "C", "A", "R", ":">>
\* The same letters in lower case (an output the classifier may emit).
LowerPrefix == <<"b", "u", "s", "c", "a", "r", ":">>
\* The literal "RESPONDER" the analysis prompt asks for (main.py:139).
RESPONDER == <<"R", "E", "S", "P", "O", "N", "D", "E", "R">>
\* Characters removed by str.strip() with no argument.
Whitespace == {" ", "\n", "\t"}

\* Pieces the modelled classifier outputs are assembled from.
Pieces == {PREFIX, LowerPrefix, RESPONDER, <<" ">>, <<"q">>}

RECURSIVE TextsUpTo(_)
TextsUpTo(n) ==
    IF n = 0 THEN {<< >>}
    ELSE LET T == TextsUpTo(n - 1)
         IN  T \cup {t \o p : t \in T, p \in Pieces}

\* Every text the provider may return as analysis_response.text.
RawTexts == TextsUpTo(MaxParts)

\* str.startswith(p)
StartsWith(s, p) ==
    /\ Len(s) >= Len(p)
    /\ SubSeq(s, 1, Len(p)) = p

\* str.lstrip()
RECURSIVE LStrip(_)
LStrip(s) ==
    IF s = << >> THEN s
    ELSE IF Head(s) \in Whitespace THEN LStrip(Tail(s))
    ELSE s

\* str.rstrip()
RECURSIVE RStrip(_)
RStrip(s) ==
    IF s = << >> THEN s
    ELSE IF s[Len(s)] \in Whitespace THEN RStrip(SubSeq(s, 1, Len(s) - 1))
    ELSE s

\* str.strip()
Strip(s) == RStrip(LStrip(s))

\* str.replace(old, ""): every non-overlapping occurrence of old, scanned
\* from the left, is removed.
RECURSIVE RemoveAll(_, _)
RemoveAll(s, old) ==
    IF s = << >> THEN s
    ELSE IF StartsWith(s, old) THEN RemoveAll(SubSeq(s, Len(old) + 1, Len(s)), old)
    ELSE <<Head(s)>> \o RemoveAll(Tail(s), old)

\* main.py:154  analysis_text.startswith("BUSCAR:")
IsSearchMissingColonSpace(analysis_text) == StartsWith(analysis_text, PREFIX \o <<" ">>)
IsSearchNegated(analysis_text) == ~StartsWith(analysis_text, PREFIX)
IsSearchAnywhere(analysis_text) ==
    \E i \in 1..Len(analysis_text) :
        StartsWith(SubSeq(analysis_text, i, Len(analysis_text)), PREFIX)
IsSearch(analysis_text) == StartsWith(analysis_text, PREFIX)

\* main.py:156  analysis_text.replace("BUSCAR:", "").strip()
ExtractQuery(analysis_text) == Strip(RemoveAll(analysis_text, PREFIX))

\* Everything after the leading prefix, trimmed: the extraction the
\* specification describes (used only to state properties).
AfterPrefix(analysis_text) ==
    Strip(SubSeq(analysis_text, Len(PREFIX) + 1, Len(analysis_text)))

\* ------------------------------------------------------- opaque values
Users == {"alice", "bob"}
Prompts == {"p1", "p2"}
\* Python's None, for values that are opaque strings otherwise.
None == "None"
\* Texts the provider may return as the .text of a generation response.
Answers == {"a1", "a2"}

\* main.py:133-141  the classification prompt embeds request.prompt
AnalysisPrompt(p) == [template |-> "analysis", prompt |-> p]
\* main.py:164-169  the synthesis prompt embeds request.prompt and the dict
FinalPrompt(p, d) == [template |-> "final", prompt |-> p, tool_results |-> d]

\* ---------------------------------------------------------- tool caller
\* What the webhook request of tool_caller.py:19-25 can end in.
RemoteOutcomes == {"ok", "connect_error", "timeout", "http_status_error", "invalid_json"}
\* Outcomes that raise a subclass of httpx.RequestError.
RequestErrors == {"connect_error", "timeout"}
\* Body of a successful webhook response.
Body == [results |-> "found"]
\* tool_results_dict before the tool was called.
NoDict == [unset |-> TRUE]

\* tool_caller.py:17-37.  The result says whether the coroutine raised and,
\* if not, the value it returned.
CallSearchWebOnlyRequestError(query, outcome) ==
    IF outcome = "ok" THEN [raised |-> FALSE, value |-> Body]
    ELSE IF outcome \in RequestErrors
    THEN [raised |-> FALSE,
          value |-> [error |-> "Request failed", message |-> outcome, query |-> query]]
    ELSE [raised |-> TRUE, value |-> NoDict]
CallSearchWebNoQuery(query, outcome) ==
    IF outcome = "ok" THEN [raised |-> FALSE, value |-> Body]
    ELSE IF outcome \in RequestErrors
    THEN [raised |-> FALSE,
          value |-> [error |-> "Request failed", message |-> outcome, query |-> query]]
    ELSE [raised |-> FALSE,
          value |-> [error |-> "Unexpected error", message |-> outcome, query |-> << >>]]
CallSearchWebAllUnexpected(query, outcome) ==
    IF outcome = "ok" THEN [raised |-> FALSE, value |-> Body]
    ELSE [raised |-> FALSE,
          value |-> [error |-> "Unexpected error", message |-> outcome, query |-> query]]
call_search_web(query, outcome) ==
    IF outcome = "ok" THEN [raised |-> FALSE, value |-> Body]
    ELSE IF outcome \in RequestErrors
    THEN [raised |-> FALSE,
          value |-> [error |-> "Request failed", message |-> outcome, query |-> query]]
    ELSE [raised |-> FALSE,
          value |-> [error |-> "Unexpected error", message |-> outcome, query |-> query]]

\* ------------------------------------------------- provider configuration
\* llm_service.py:41-83.  TRUE when a client is returned, FALSE when
\* ValueError is raised.
GetGeminiModelFallsBackToApiKey(e) ==
    IF e.use_vertex /\ e.project THEN TRUE ELSE e.api_key
get_gemini_model(e) ==
    IF e.use_vertex THEN e.project ELSE e.api_key

\* ------------------------------------------------------------------ state
VARIABLES
    env,                \* process environment: use_vertex, project set, api_key set
    pc,                 \* per request: position in process_query
    user_name,          \* per request: request.user_name
    prompt,             \* per request: request.prompt
    analysis_text,      \* per request: local analysis_text
    query,              \* per request: local query
    tool_results_dict,  \* per request: local tool_results_dict
    final_answer,       \* per request: local final_answer
    exc,                \* per request: the exception caught at main.py:205
    webhook,            \* per request: how the webhook request ended
    calls,              \* per request: calls made to collaborators, in order
    session,            \* per request: rows added to the session, not committed
    table,              \* committed rows of query_logs
    now,                \* database server clock
    responses,          \* per request: HTTP responses sent to the caller
    posts,              \* per request: POST requests sent to the webhook
    listing             \* the response of get_logs

vars == <<env, pc, user_name, prompt, analysis_text, query, tool_results_dict,
          final_answer, exc, webhook, calls, session, table, now, responses,
          posts, listing>>

locals == <<analysis_text, query, tool_results_dict, final_answer>>
dbvars == <<session, table, now>>
request == <<env, user_name, prompt>>

Event(op, arg, ok, ret) == [op |-> op, arg |-> arg, ok |-> ok, ret |-> ret]

\* No get_logs request was answered yet.
NoListing == [status |-> 0, total |-> 0, logs |-> << >>]

Envs == [use_vertex : BOOLEAN, project : BOOLEAN, api_key : BOOLEAN]

InitCommon ==
    /\ env \in Envs
    /\ user_name \in [Reqs -> Users]
    /\ prompt \in [Reqs -> Prompts]
    /\ analysis_text = [r \in Reqs |-> << >>]
    /\ query = [r \in Reqs |-> << >>]
    /\ tool_results_dict = [r \in Reqs |-> NoDict]
    /\ final_answer = [r \in Reqs |-> None]
    /\ exc = [r \in Reqs |-> "none"]
    /\ webhook = [r \in Reqs |-> "none"]
    /\ calls = [r \in Reqs |-> << >>]
    /\ session = [r \in Reqs |-> << >>]
    /\ table = << >>
    /\ now = 0
    /\ responses = [r \in Reqs |-> << >>]
    /\ posts = [r \in Reqs |-> 0]
    /\ listing = NoListing

\* One request is received; the other slots stay idle.
Init ==
    /\ InitCommon
    /\ pc = [r \in Reqs |-> IF r = 1 THEN "start" ELSE "idle"]
    /\ \A r \in Reqs : r # 1 => user_name[r] = "alice" /\ prompt[r] = "p1"


\* ---------------------------------------------------------------- steps
Record(r, e) == calls' = [calls EXCEPT ![r] = Append(@, e)]

\* main.py:205-214 is entered with exception kind k.
Raise(r, k) ==
    /\ exc' = [exc EXCEPT ![r] = k]
    /\ pc' = [pc EXCEPT ![r] = "except"]

\* main.py:126-128  result = get_gemini_model()
GetGeminiModel(r) ==
    /\ pc[r] = "start"
    /\ IF get_gemini_model(env)
       THEN /\ pc' = [pc EXCEPT ![r] = "classify"]
            /\ UNCHANGED exc
       ELSE Raise(r, "ValueError")
    /\ UNCHANGED <<request, listing, posts, locals, webhook, calls, dbvars, responses>>

\* main.py:143-156  the classification call and the parsing of its text;
\* texts is the set of texts the provider may answer with.
ClassifySwallowsError(r, texts) ==
    /\ pc[r] = "classify"
    /\ \/ /\ Record(r, Event("classify", AnalysisPrompt(prompt[r]), FALSE, None))
          /\ pc' = [pc EXCEPT ![r] = "direct"]
          /\ UNCHANGED <<locals, exc>>
       \/ \E t \in texts :
            LET stripped == Strip(t) IN
            /\ Record(r, Event("classify", AnalysisPrompt(prompt[r]), TRUE, "text"))
            /\ analysis_text' = [analysis_text EXCEPT ![r] = stripped]
            /\ final_answer' = [final_answer EXCEPT ![r] = None]
            /\ IF IsSearch(stripped)
               THEN /\ query' = [query EXCEPT ![r] = ExtractQuery(stripped)]
                    /\ pc' = [pc EXCEPT ![r] = "search"]
               ELSE /\ pc' = [pc EXCEPT ![r] = "direct"]
                    /\ UNCHANGED query
            /\ UNCHANGED <<exc, tool_results_dict>>
    /\ UNCHANGED <<request, listing, posts, webhook, dbvars, responses>>
Classify(r, texts) ==
    /\ pc[r] = "classify"
    /\ \/ \* generate_content raises (authentication, quota, network)
          /\ Record(r, Event("classify", AnalysisPrompt(prompt[r]), FALSE, None))
          /\ Raise(r, "ProviderError")
          /\ UNCHANGED locals
       \/ \* the response carries no text: None.strip() raises
          /\ Record(r, Event("classify", AnalysisPrompt(prompt[r]), TRUE, None))
          /\ Raise(r, "AttributeError")
          /\ UNCHANGED locals
       \/ \E t \in texts :
            LET stripped == Strip(t) IN
            /\ Record(r, Event("classify", AnalysisPrompt(prompt[r]), TRUE, "text"))
            /\ analysis_text' = [analysis_text EXCEPT ![r] = stripped]
            /\ final_answer' = [final_answer EXCEPT ![r] = None]
            /\ IF IsSearch(stripped)
               THEN /\ query' = [query EXCEPT ![r] = ExtractQuery(stripped)]
                    /\ pc' = [pc EXCEPT ![r] = "search"]
               ELSE /\ pc' = [pc EXCEPT ![r] = "direct"]
                    /\ UNCHANGED query
            /\ UNCHANGED <<exc, tool_results_dict>>
    /\ UNCHANGED <<request, listing, posts, webhook, dbvars, responses>>

\* main.py:160  tool_results_dict = await call_search_web(query=query)
SearchRetriesOnce(r) ==
    /\ pc[r] = "search"
    /\ \E o1, o2 \in RemoteOutcomes :
         LET o == IF o1 = "ok" THEN o1 ELSE o2
             res == call_search_web(query[r], o) IN
         /\ webhook' = [webhook EXCEPT ![r] = o]
         /\ posts' = [posts EXCEPT ![r] = @ + (IF o1 = "ok" THEN 1 ELSE 2)]
         /\ Record(r, Event("search", query[r], ~res.raised, res.value))
         /\ tool_results_dict' = [tool_results_dict EXCEPT ![r] = res.value]
         /\ pc' = [pc EXCEPT ![r] = "synthesis"]
         /\ UNCHANGED exc
    /\ UNCHANGED <<request, listing, analysis_text, query, final_answer, dbvars, responses>>
Search(r) ==
    /\ pc[r] = "search"
    /\ \E o \in RemoteOutcomes :
         LET res == call_search_web(query[r], o) IN
         /\ webhook' = [webhook EXCEPT ![r] = o]
         /\ Record(r, Event("search", query[r], ~res.raised, res.value))
         /\ IF res.raised
            THEN /\ Raise(r, "HTTPError")
                 /\ UNCHANGED tool_results_dict
            ELSE /\ tool_results_dict' = [tool_results_dict EXCEPT ![r] = res.value]
                 /\ pc' = [pc EXCEPT ![r] = "synthesis"]
                 /\ UNCHANGED exc
    /\ posts' = [posts EXCEPT ![r] = @ + 1]
    /\ UNCHANGED <<request, listing, analysis_text, query, final_answer, dbvars, responses>>

\* A generation call with contents arg whose .text becomes final_answer.
GenerateAfterLogging(r, op, arg) ==
    /\ \/ /\ Record(r, Event(op, arg, FALSE, None))
          /\ Raise(r, "ProviderError")
          /\ UNCHANGED final_answer
       \/ \E a \in Answers \cup {None} :
            /\ calls' = [calls EXCEPT ![r] =
                    @ \o <<Event("add", [user_name |-> user_name[r],
                                          prompt_text |-> prompt[r],
                                          final_answer |-> final_answer[r]], TRUE, None),
                           Event(op, arg, TRUE, a)>>]
            /\ final_answer' = [final_answer EXCEPT ![r] = a]
            /\ pc' = [pc EXCEPT ![r] = "refresh"]
            /\ UNCHANGED exc
    /\ UNCHANGED <<request, listing, posts, analysis_text, query, tool_results_dict, webhook,
                   dbvars, responses>>
Generate(r, op, arg) ==
    /\ \/ /\ Record(r, Event(op, arg, FALSE, None))
          /\ Raise(r, "ProviderError")
          /\ UNCHANGED final_answer
       \/ \E a \in Answers \cup {None} :
            /\ Record(r, Event(op, arg, TRUE, a))
            /\ final_answer' = [final_answer EXCEPT ![r] = a]
            /\ pc' = [pc EXCEPT ![r] = "log"]
            /\ UNCHANGED exc
    /\ UNCHANGED <<request, listing, posts, analysis_text, query, tool_results_dict, webhook,
                   dbvars, responses>>

\* main.py:164-177  the synthesis call
Synthesize(r) ==
    /\ pc[r] = "synthesis"
    /\ Generate(r, "synthesis", FinalPrompt(prompt[r], tool_results_dict[r]))

\* main.py:182-186  the direct generation call
DirectGenerate(r) ==
    /\ pc[r] = "direct"
    /\ Generate(r, "direct", prompt[r])

\* main.py:190-194  db_log = QueryLog(...)
QueryLogWithoutAnswer(r) ==
    [user_name |-> user_name[r], prompt_text |-> prompt[r], final_answer |-> None]
QueryLog(r) ==
    [user_name |-> user_name[r], prompt_text |-> prompt[r],
     final_answer |-> final_answer[r]]

\* A row as the database stores it: models.py:13 (autoincrement id) and
\* models.py:17 (server_default=func.now()).
Stored(row, ts) ==
    [id |-> Len(table) + 1, user_name |-> row.user_name,
     prompt_text |-> row.prompt_text, final_answer |-> row.final_answer,
     timestamp |-> ts]

\* main.py:196-197  db.add(db_log); await db.commit()
LogWriteBestEffort(r) ==
    /\ pc[r] = "log"
    /\ \/ \E ts \in {now, now + 1} :
            /\ calls' = [calls EXCEPT ![r] =
                    @ \o <<Event("add", QueryLog(r), TRUE, None),
                           Event("commit", None, TRUE, Len(table) + 1)>>]
            /\ table' = Append(table, Stored(QueryLog(r), ts))
            /\ now' = ts
            /\ session' = [session EXCEPT ![r] = << >>]
            /\ pc' = [pc EXCEPT ![r] = "refresh"]
            /\ UNCHANGED exc
       \/ /\ calls' = [calls EXCEPT ![r] =
                    @ \o <<Event("add", QueryLog(r), TRUE, None),
                           Event("commit", None, FALSE, None)>>]
          /\ session' = [session EXCEPT ![r] = <<QueryLog(r)>>]
          /\ pc' = [pc EXCEPT ![r] = "refresh"]
          /\ UNCHANGED <<exc, table, now>>
    /\ UNCHANGED <<request, listing, posts, locals, webhook, responses>>
LogWrite(r) ==
    /\ pc[r] = "log"
    /\ \/ \E ts \in {now, now + 1} :
            /\ calls' = [calls EXCEPT ![r] =
                    @ \o <<Event("add", QueryLog(r), TRUE, None),
                           Event("commit", None, TRUE, Len(table) + 1)>>]
            /\ table' = Append(table, Stored(QueryLog(r), ts))
            /\ now' = ts
            /\ session' = [session EXCEPT ![r] = << >>]
            /\ pc' = [pc EXCEPT ![r] = "refresh"]
            /\ UNCHANGED exc
       \/ /\ calls' = [calls EXCEPT ![r] =
                    @ \o <<Event("add", QueryLog(r), TRUE, None),
                           Event("commit", None, FALSE, None)>>]
          /\ session' = [session EXCEPT ![r] = <<QueryLog(r)>>]
          /\ Raise(r, "SQLAlchemyError")
          /\ UNCHANGED <<table, now>>
    /\ UNCHANGED <<request, listing, posts, locals, webhook, responses>>

\* pydantic accepts final_answer: str only (main.py:25).
ValidResponse(answer) == answer # None

Respond(r, status, answer) ==
    responses' = [responses EXCEPT ![r] =
                    Append(@, [status |-> status, final_answer |-> answer])]

\* main.py:198-203  await db.refresh(db_log); return QueryResponse(...)
RefreshAndReturnAnswersFirst(r) ==
    /\ pc[r] = "refresh"
    /\ \/ /\ Record(r, Event("refresh", None, TRUE, None))
          /\ IF ValidResponse(final_answer[r])
             THEN /\ Respond(r, 200, final_answer[r])
                  /\ pc' = [pc EXCEPT ![r] = "done"]
                  /\ UNCHANGED exc
             ELSE /\ Raise(r, "ValidationError")
                  /\ UNCHANGED responses
       \/ /\ Record(r, Event("refresh", None, FALSE, None))
          /\ Raise(r, "SQLAlchemyError")
          /\ Respond(r, 200, final_answer[r])
    /\ UNCHANGED <<request, listing, posts, locals, webhook, dbvars>>
RefreshAndReturn(r) ==
    /\ pc[r] = "refresh"
    /\ \/ /\ Record(r, Event("refresh", None, TRUE, None))
          /\ IF ValidResponse(final_answer[r])
             THEN /\ Respond(r, 200, final_answer[r])
                  /\ pc' = [pc EXCEPT ![r] = "done"]
                  /\ UNCHANGED exc
             ELSE /\ Raise(r, "ValidationError")
                  /\ UNCHANGED responses
       \/ /\ Record(r, Event("refresh", None, FALSE, None))
          /\ Raise(r, "SQLAlchemyError")
          /\ UNCHANGED responses
    /\ UNCHANGED <<request, listing, posts, locals, webhook, dbvars>>

\* main.py:205-214  rollback, then HTTPException(500); when the rollback
\* itself raises, the server still answers 500.
HandleExceptionLogsFailure(r) ==
    /\ pc[r] = "except"
    /\ \E ok \in BOOLEAN :
         calls' = [calls EXCEPT ![r] =
                    @ \o <<Event("rollback", None, ok, None),
                           Event("add", QueryLog(r), TRUE, None),
                           Event("commit", None, TRUE, Len(table) + 1)>>]
    /\ session' = [session EXCEPT ![r] = << >>]
    /\ table' = Append(table, Stored(QueryLog(r), now))
    /\ Respond(r, 500, None)
    /\ pc' = [pc EXCEPT ![r] = "done"]
    /\ UNCHANGED <<request, listing, posts, locals, exc, webhook, now>>
HandleExceptionSharedSession(r) ==
    /\ pc[r] = "except"
    /\ \E ok \in BOOLEAN : Record(r, Event("rollback", None, ok, None))
    /\ session' = [q \in Reqs |-> << >>]
    /\ table' = SubSeq(table, 1, Len(table) - 1)
    /\ Respond(r, 500, None)
    /\ pc' = [pc EXCEPT ![r] = "done"]
    /\ UNCHANGED <<request, listing, posts, locals, exc, webhook, now>>
HandleException(r) ==
    /\ pc[r] = "except"
    /\ \E ok \in BOOLEAN : Record(r, Event("rollback", None, ok, None))
    /\ session' = [session EXCEPT ![r] = << >>]
    /\ Respond(r, 500, None)
    /\ pc' = [pc EXCEPT ![r] = "done"]
    /\ UNCHANGED <<request, listing, posts, locals, exc, webhook, table, now>>

Next ==
    \E r \in Reqs :
        \/ GetGeminiModel(r)
        \/ Classify(r, RawTexts)
        \/ Search(r)
        \/ Synthesize(r)
        \/ DirectGenerate(r)
        \/ LogWrite(r)
        \/ RefreshAndReturn(r)
        \/ HandleException(r)

Spec == Init /\ [][Next]_vars

\* The steps of request r.
Step(r) ==
    \/ GetGeminiModel(r)
    \/ Classify(r, RawTexts)
    \/ Search(r)
    \/ Synthesize(r)
    \/ DirectGenerate(r)
    \/ LogWrite(r)
    \/ RefreshAndReturn(r)
    \/ HandleException(r)

\* Every external call (provider, webhook, database) eventually returns or
\* raises, so a request that can take its next step eventually takes it.
Fairness == \A r \in Reqs : WF_vars(Step(r))

SpecLive == Init /\ [][Next]_vars /\ Fairness

\* ---------------------------------------------------------------- get_logs
\* datetime.isoformat() (main.py:237)
IsoFormat(ts) == <<"iso", ts>>

\* main.py:232-238  the dict built for one row
LogDict(row) ==
    [id |-> row.id, user_name |-> row.user_name, prompt_text |-> row.prompt_text,
     final_answer |-> row.final_answer, timestamp |-> IsoFormat(row.timestamp)]

\* main.py:226-227  select(QueryLog).order_by(QueryLog.timestamp.desc()):
\* every order of the rows in which timestamps never increase (the
\* database decides the order of rows with equal timestamps).
OrderByTimestampAsc(rows) ==
    LET n == Len(rows)
        perms == {f \in [1..n -> 1..n] : \A i, j \in 1..n : i # j => f[i] # f[j]}
    IN  {[i \in 1..n |-> rows[f[i]]] :
            f \in {g \in perms : \A i, j \in 1..n :
                        i < j => rows[g[i]].timestamp <= rows[g[j]].timestamp}}
OrderByTimestampDesc(rows) ==
    LET n == Len(rows)
        perms == {f \in [1..n -> 1..n] : \A i, j \in 1..n : i # j => f[i] # f[j]}
    IN  {[i \in 1..n |-> rows[f[i]]] :
            f \in {g \in perms : \A i, j \in 1..n :
                        i < j => rows[g[i]].timestamp >= rows[g[j]].timestamp}}

\* main.py:217-246  one get_logs request, answered at any moment
GetLogs ==
    /\ listing = NoListing
    /\ \/ \E logs \in OrderByTimestampDesc(table) :
            listing' = [status |-> 200, total |-> Len(logs),
                        logs |-> [i \in 1..Len(logs) |-> LogDict(logs[i])]]
       \/ \* db.execute raises: HTTPException(500)
          listing' = [status |-> 500, total |-> 0, logs |-> << >>]
    /\ UNCHANGED <<request, pc, locals, exc, webhook, calls, dbvars, responses, posts>>

\* ------------------------------------------------------ concurrent requests
\* Classifier outputs of the concurrent runs: one of each branch.
ConcTexts == {RESPONDER, PREFIX \o <<" ", "q">>}

\* All requests are in flight together, under a valid configuration.
InitConc ==
    /\ InitCommon
    /\ get_gemini_model(env) /\ env.project /\ env.api_key
    /\ pc = [r \in Reqs |-> "start"]
    /\ \A r \in Reqs : user_name[r] = (IF r = 1 THEN "alice" ELSE "bob")
    /\ \A r \in Reqs : prompt[r] = (IF r = 1 THEN "p1" ELSE "p2")

NextConc ==
    \/ \E r \in Reqs :
        \/ GetGeminiModel(r)
        \/ Classify(r, ConcTexts)
        \/ Search(r)
        \/ Synthesize(r)
        \/ DirectGenerate(r)
        \/ LogWrite(r)
        \/ RefreshAndReturn(r)
        \/ HandleException(r)
    \/ GetLogs

SpecConc == InitConc /\ [][NextConc]_vars

\* ------------------------------------------------------------ vocabulary
Done(r) == pc[r] = "done"
\* Events of request r with operation op.
EventsOf(r, op) == {i \in 1..Len(calls[r]) : calls[r][i].op = op}
Count(r, op) == Cardinality(EventsOf(r, op))
\* The classification call returned a text and it was parsed.
Classified(r) ==
    /\ \E i \in EventsOf(r, "classify") : calls[r][i].ok
    /\ exc[r] # "AttributeError"

TypeOK ==
    /\ pc \in [Reqs -> {"idle", "start", "classify", "search", "synthesis", "direct",
                        "log", "refresh", "except", "done"}]
    /\ \A r \in Reqs : final_answer[r] \in Answers \cup {None}
    /\ \A r \in Reqs : Len(responses[r]) <= 1


\* The generation calls of process_query.
GenOps == {"classify", "synthesis", "direct"}
\* A generation call returned the response final_answer was read from.
Produced(r) ==
    \E i \in EventsOf(r, "synthesis") \cup EventsOf(r, "direct") : calls[r][i].ok
\* The classifier's trimmed output is BUSCAR: followed by a query.
EmitsSearch(r) == Classified(r) /\ StartsWith(analysis_text[r], PREFIX)
Ok200(r, answer) == responses[r] = <<[status |-> 200, final_answer |-> answer]>>
Error500(r) == responses[r] = <<[status |-> 500, final_answer |-> None]>>
\* The direct-generation path was taken: the direct call is next or was made.
OnDirectPath(r) ==
    /\ pc[r] \notin {"search", "synthesis"}
    /\ Count(r, "synthesis") = 0
    /\ pc[r] = "direct" \/ Count(r, "direct") = 1
    /\ \A i \in EventsOf(r, "direct") : calls[r][i].arg = prompt[r]

\* --------------------------------------------------------------- claims

\* C1: when the trimmed classifier output is the literal RESPONDER, the
\* tool is never called at any point of the request.
C1_ResponderNeverSearches ==
    \A r \in Reqs :
        (Classified(r) /\ analysis_text[r] = RESPONDER)
            => (Count(r, "search") = 0 /\ pc[r] # "search")

C1_Witness ==
    \E r \in Reqs :
        /\ Done(r) /\ Classified(r) /\ analysis_text[r] = RESPONDER
        /\ Count(r, "direct") = 1
        /\ \E a \in Answers : Ok200(r, a)

\* C2: when the classifier output is BUSCAR: <q> with non-empty <q>, the
\* tool is called exactly once in the request, whether the tool call
\* succeeds or fails: no call before the search step, one from then on.
C2_SearchExactlyOnce ==
    \A r \in Reqs :
        (EmitsSearch(r) /\ AfterPrefix(analysis_text[r]) # << >>)
            => Count(r, "search") = (IF pc[r] = "search" THEN 0 ELSE 1)

C2_Witness ==
    \E r \in Reqs :
        /\ Done(r) /\ EmitsSearch(r) /\ AfterPrefix(analysis_text[r]) = <<"q">>
        /\ webhook[r] = "timeout"
        /\ Count(r, "search") = 1

\* C3: when the trimmed classifier output is BUSCAR: followed by nothing,
\* so that the extracted query is empty, the request falls back to direct
\* generation on the user's prompt and the tool is not called.
C3_EmptyQueryFallsBack ==
    \A r \in Reqs :
        (EmitsSearch(r) /\ AfterPrefix(analysis_text[r]) = << >>)
            => (Count(r, "search") = 0 /\ OnDirectPath(r))

\* C4: the query passed to the tool is exactly everything after the
\* leading BUSCAR: of the classifier output, trimmed, whatever the
\* remainder contains.
C4_QueryIsRemainder ==
    \A r \in Reqs :
        \A i \in EventsOf(r, "search") :
            calls[r][i].arg = AfterPrefix(analysis_text[r])

\* C5: a classifier text that, trimmed, does not start with the exact
\* prefix BUSCAR: takes the direct-generation path, never calls the tool,
\* and raises nothing before the direct generation call is made.
C5_NoPrefixGoesDirect ==
    \A r \in Reqs :
        (Classified(r) /\ ~StartsWith(analysis_text[r], PREFIX))
            => /\ Count(r, "search") = 0
               /\ OnDirectPath(r)
               /\ exc[r] \in {"none", "ProviderError", "SQLAlchemyError", "ValidationError"}
               /\ exc[r] = "ProviderError"
                    => \E i \in EventsOf(r, "direct") : ~calls[r][i].ok

C5_Witness ==
    \E r \in Reqs :
        /\ Done(r) /\ Classified(r)
        /\ analysis_text[r] = <<"q">> \o PREFIX
        /\ Count(r, "direct") = 1
        /\ \E a \in Answers : Ok200(r, a)

\* C6: call_search_web never raises to its caller, and on every failure
\* of the remote call it returns an error payload with the keys error,
\* message and query whose query is the query it was called with.
C6_ToolNeverRaises ==
    \A r \in Reqs :
        /\ exc[r] # "HTTPError"
        /\ \A i \in EventsOf(r, "search") :
            /\ calls[r][i].ok
            /\ webhook[r] # "ok" =>
                /\ DOMAIN calls[r][i].ret = {"error", "message", "query"}
                /\ calls[r][i].ret.query = calls[r][i].arg

C6_Witness ==
    \E r \in Reqs :
        /\ webhook[r] = "http_status_error"
        /\ Count(r, "search") = 1
        /\ query[r] = <<"q">>
        /\ tool_results_dict[r].query = <<"q">>

\* C7: on the search path a tool failure never aborts the request: with a
\* success body or an error payload alike, the synthesis call follows with
\* that payload embedded in its prompt, and the synthesis output becomes
\* the final_answer that is returned.
C7_ToolFailureNotFatal ==
    \A r \in Reqs :
        /\ \A i \in EventsOf(r, "search") :
            /\ exc[r] # "HTTPError"
            /\ tool_results_dict[r] = calls[r][i].ret
            /\ pc[r] = "synthesis" \/ Count(r, "synthesis") = 1
        /\ \A i \in EventsOf(r, "synthesis") :
            /\ Count(r, "search") = 1
            /\ calls[r][i].arg = FinalPrompt(prompt[r], tool_results_dict[r])
            /\ calls[r][i].ok =>
                /\ final_answer[r] = calls[r][i].ret
                /\ (Done(r) /\ exc[r] = "none") => Ok200(r, calls[r][i].ret)

C7_Witness ==
    \E r \in Reqs :
        /\ Done(r)
        /\ webhook[r] = "connect_error"
        /\ "error" \in DOMAIN tool_results_dict[r]
        /\ \E i \in EventsOf(r, "synthesis") :
            /\ calls[r][i].arg.tool_results = tool_results_dict[r]
            /\ Ok200(r, calls[r][i].ret)

\* C8: a request that produced a final_answer attempts exactly one log
\* write (one add, one commit); a request that failed before a
\* final_answer was produced attempts none.
C8_OneLogWritePerAnswer ==
    \A r \in Reqs :
        /\ Count(r, "add") <= 1 /\ Count(r, "commit") <= 1
        /\ ~Produced(r) => (Count(r, "add") = 0 /\ Count(r, "commit") = 0)
        /\ (Done(r) /\ Produced(r)) => (Count(r, "add") = 1 /\ Count(r, "commit") = 1)

C8_Witness ==
    \E r \in Reqs :
        /\ Done(r) /\ Produced(r)
        /\ Count(r, "commit") = 1
        /\ final_answer[r] \in Answers

\* C9: when the commit of the log entry fails after a final_answer was
\* computed, the session is rolled back and the caller gets the internal
\* error; the computed final_answer is not returned.
C9_LogFailureIsFatal ==
    \A r \in Reqs :
        (Done(r) /\ \E i \in EventsOf(r, "commit") : ~calls[r][i].ok)
            => /\ Count(r, "rollback") = 1
               /\ calls[r][Len(calls[r])].op = "rollback"
               /\ session[r] = << >>
               /\ Error500(r)

C9_Witness ==
    \E r \in Reqs :
        /\ Done(r)
        /\ final_answer[r] \in Answers
        /\ \E i \in EventsOf(r, "commit") : ~calls[r][i].ok
        /\ Error500(r)

\* C10: a failed generation call (classification, synthesis or direct
\* generation) is fatal: no tool or generation call follows it, and the
\* request ends in a single internal-error response without a
\* final_answer.
C10_GenerationFailureIsFatal ==
    \A r \in Reqs :
        /\ Len(responses[r]) <= 1
        /\ \A i \in 1..Len(calls[r]) :
            (calls[r][i].op \in GenOps /\ ~calls[r][i].ok)
                => /\ \A j \in (i + 1)..Len(calls[r]) : calls[r][j].op = "rollback"
                   /\ exc[r] = "ProviderError"
                   /\ pc[r] \in {"except", "done"}
                   /\ Done(r) => Error500(r)

C10_Witness ==
    \E r \in Reqs :
        /\ Done(r)
        /\ Count(r, "search") = 1
        /\ \E i \in EventsOf(r, "synthesis") : ~calls[r][i].ok
        /\ Error500(r)


\* C11: every request that enters process_query eventually reaches exactly
\* one terminal outcome, a returned final_answer or a propagated failure
\* and never both, given that every external call returns or fails.
C11_EventuallyOneOutcome ==
    \A r \in Reqs :
        (pc[r] = "start") ~>
            /\ Done(r)
            /\ Len(responses[r]) = 1
            /\ (\E a \in Answers : Ok200(r, a)) \/ Error500(r)

C11_Witness ==
    \E r \in Reqs :
        /\ Done(r)
        /\ Len(responses[r]) = 1
        /\ Error500(r)
        /\ \E i \in EventsOf(r, "refresh") : ~calls[r][i].ok


\* The table holds a row with the user_name, prompt and final_answer of r.
Persisted(r) ==
    \E i \in 1..Len(table) :
        /\ table[i].user_name = user_name[r]
        /\ table[i].prompt_text = prompt[r]
        /\ table[i].final_answer = final_answer[r]
\* The commit of request r was attempted and succeeded.
Committed(r) == \E i \in EventsOf(r, "commit") : calls[r][i].ok

C13_GetLogsListsAll ==
    /\ [](listing.status = 200 =>
            /\ listing.total = Len(listing.logs)
            /\ \A i, j \in 1..Len(listing.logs) :
                i < j => listing.logs[i].timestamp[2] >= listing.logs[j].timestamp[2]
            /\ \A i \in 1..Len(listing.logs) :
                /\ listing.logs[i].id \in 1..Len(table)
                /\ listing.logs[i] = LogDict(table[listing.logs[i].id]))
    /\ [][/\ Len(table') >= Len(table)
          /\ \A i \in 1..Len(table) : table'[i] = table[i]
          /\ listing' # listing =>
                /\ table' = table
                /\ listing'.status = 200 =>
                    {listing'.logs[i].id : i \in 1..Len(listing'.logs)} = 1..Len(table)]_vars

C13_Witness ==
    /\ listing.status = 200
    /\ listing.total = 2
    /\ listing.logs[1].id = 2
    /\ listing.logs[1].timestamp = IsoFormat(1)
    /\ listing.logs[2].timestamp = IsoFormat(0)


\* Positions in calls[r] of the events whose operation is in ops.
Positions(r, ops) == {i \in 1..Len(calls[r]) : calls[r][i].op \in ops}
\* Every event of ops1 comes before every event of ops2.
Before(r, ops1, ops2) ==
    \A i \in Positions(r, ops1), j \in Positions(r, ops2) : i < j

\* C14: within one request the classification call completes before any
\* tool call or direct-generation call starts, the tool call completes
\* before the synthesis call starts, and the log write starts only after
\* the final_answer was produced.
C14_CallsAreOrdered ==
    \A r \in Reqs :
        /\ Positions(r, {"search", "direct", "synthesis"}) # {}
            => \E i \in EventsOf(r, "classify") :
                    calls[r][i].ok /\ i < Len(calls[r])
        /\ Before(r, {"classify"}, {"search", "direct", "synthesis"})
        /\ Positions(r, {"synthesis"}) # {} => Positions(r, {"search"}) # {}
        /\ Before(r, {"search"}, {"synthesis"})
        /\ Positions(r, {"add", "commit"}) # {} => Produced(r)
        /\ Before(r, {"synthesis", "direct"}, {"add", "commit", "refresh"})
        /\ \A i \in Positions(r, {"add"}) :
                calls[r][i].arg.final_answer = final_answer[r]

C14_Witness ==
    \E r \in Reqs :
        /\ Done(r)
        /\ Len(calls[r]) = 6
        /\ [i \in 1..6 |-> calls[r][i].op]
              = <<"classify", "search", "synthesis", "add", "commit", "refresh">>


\* C15: nothing is retried: in one request the classification call is made
\* at most once, at most one call is made of synthesis and direct
\* generation together, the tool is called at most once and sends one POST
\* per invocation, and the commit is attempted at most once.
C15_NoRetries ==
    \A r \in Reqs :
        /\ Count(r, "classify") <= 1
        /\ Count(r, "synthesis") + Count(r, "direct") <= 1
        /\ Count(r, "search") <= 1
        /\ posts[r] = Count(r, "search")
        /\ Count(r, "add") <= 1
        /\ Count(r, "commit") <= 1
        /\ Count(r, "refresh") <= 1
        /\ Count(r, "rollback") <= 1

C15_Witness ==
    \E r \in Reqs :
        /\ Done(r)
        /\ webhook[r] = "timeout" /\ posts[r] = 1
        /\ Count(r, "synthesis") = 1
        /\ \E i \in EventsOf(r, "commit") : ~calls[r][i].ok
        /\ Count(r, "commit") = 1 /\ Count(r, "rollback") = 1


\* C16: on the direct-answer path the generation call gets the raw user
\* prompt unmodified, and the final_answer that is logged and returned is
\* exactly the output of that call.
C16_DirectAnswerIsPassedThrough ==
    \A r \in Reqs :
        \A i \in EventsOf(r, "direct") :
            /\ calls[r][i].arg = prompt[r]
            /\ calls[r][i].ok =>
                /\ final_answer[r] = calls[r][i].ret
                /\ \A j \in EventsOf(r, "add") :
                        calls[r][j].arg.final_answer = calls[r][i].ret
                /\ \A j \in EventsOf(r, "commit") :
                        calls[r][j].ok =>
                            table[calls[r][j].ret].final_answer = calls[r][i].ret
                /\ \A k \in 1..Len(responses[r]) :
                        responses[r][k].status = 200 =>
                            responses[r][k].final_answer = calls[r][i].ret

C16_Witness ==
    \E r \in Reqs :
        /\ Done(r)
        /\ \E i \in EventsOf(r, "direct") :
                calls[r][i].arg = "p2" /\ calls[r][i].ret = "a2"
        /\ Len(table) = 1 /\ table[1].final_answer = "a2"
        /\ Ok200(r, "a2")


\* C17: under any interleaving of concurrent requests, the log entry a
\* request writes carries its own user_name, prompt and final_answer, the
\* answer returned to a caller is the one computed for its request, and a
\* request's failure and rollback neither removes nor alters a committed
\* entry of another request.
C17_RequestsAreIndependent ==
    /\ [](\A r \in Reqs :
            /\ \A i \in EventsOf(r, "add") :
                calls[r][i].arg = [user_name |-> user_name[r],
                                   prompt_text |-> prompt[r],
                                   final_answer |-> final_answer[r]]
            /\ \A i \in EventsOf(r, "commit") :
                calls[r][i].ok =>
                    /\ calls[r][i].ret \in 1..Len(table)
                    /\ table[calls[r][i].ret].user_name = user_name[r]
                    /\ table[calls[r][i].ret].prompt_text = prompt[r]
                    /\ table[calls[r][i].ret].final_answer = final_answer[r]
                    /\ \A q \in Reqs \ {r} : \A j \in EventsOf(q, "commit") :
                            calls[q][j].ok => calls[q][j].ret # calls[r][i].ret
            /\ \A k \in 1..Len(responses[r]) :
                responses[r][k].status = 200 =>
                    /\ responses[r][k].final_answer = final_answer[r]
                    /\ \E i \in EventsOf(r, "synthesis") \cup EventsOf(r, "direct") :
                            calls[r][i].ok /\ calls[r][i].ret = responses[r][k].final_answer)
    /\ [][/\ Len(table') >= Len(table)
          /\ \A i \in 1..Len(table) : table'[i] = table[i]
          /\ \A r \in Reqs : Len(responses[r]) = 1 => responses'[r] = responses[r]]_vars

C17_Witness ==
    \E r, q \in Reqs :
        /\ r # q
        /\ Done(r) /\ Error500(r)
        /\ \E i \in EventsOf(r, "commit") : ~calls[r][i].ok
        /\ Done(q) /\ Committed(q) /\ Persisted(q)
        /\ final_answer[r] # final_answer[q]
        /\ Ok200(q, final_answer[q])


\* C18: every failure of call_search_web is mapped to exactly one of two
\* error kinds in a payload with the keys error, message and query:
\* transport failures (connection, timeout) give "Request failed", every
\* other failure gives "Unexpected error".
C18_TwoErrorKinds ==
    \A r \in Reqs :
        \A i \in EventsOf(r, "search") :
            LET d == calls[r][i].ret IN
            /\ webhook[r] = "ok" => d = Body
            /\ webhook[r] # "ok" =>
                /\ DOMAIN d = {"error", "message", "query"}
                /\ d.error \in {"Request failed", "Unexpected error"}
                /\ d.error = "Request failed" <=> webhook[r] \in RequestErrors
                /\ d.message = webhook[r]

C18_Witness ==
    \E r \in Reqs :
        /\ webhook[r] = "invalid_json"
        /\ tool_results_dict[r].error = "Unexpected error"
        /\ pc[r] = "synthesis"

\* The variable of the selected authentication mode is not set.
ConfigMissing(e) ==
    \/ e.use_vertex /\ ~e.project
    \/ ~e.use_vertex /\ ~e.api_key

\* C19: exactly one of two authentication modes is selected; when the
\* managed-credentials mode lacks the project id or the api-key mode lacks
\* the api key, get_gemini_model fails, and in process_query that failure
\* is fatal and comes before any generation call, tool call or log write.
C19_MissingConfigIsFatal ==
    \A r \in Reqs :
        pc[r] \notin {"idle", "start"} =>
            IF ConfigMissing(env)
            THEN /\ exc[r] = "ValueError"
                 /\ pc[r] \in {"except", "done"}
                 /\ \A i \in 1..Len(calls[r]) : calls[r][i].op = "rollback"
                 /\ posts[r] = 0
                 /\ table = << >>
                 /\ Done(r) => Error500(r)
            ELSE exc[r] # "ValueError"

C19_Witness ==
    \E r \in Reqs :
        /\ env.use_vertex /\ ~env.project /\ env.api_key
        /\ Done(r) /\ Error500(r)
        /\ exc[r] = "ValueError"

\* C20: a log entry of a request is committed if and only if the request
\* returns its final_answer: no request that ends in a fatal error leaves
\* a committed entry behind.
C20_CommittedIffReturned ==
    \A r \in Reqs :
        Done(r) =>
            ((Committed(r) /\ Persisted(r)) <=> \E a \in Answers : Ok200(r, a))

====
